---- MODULE Spec2Model ----
(***************************************************************************)
(* Model of generate_allure_report.py: a command-line wrapper that probes  *)
(* for the "allure" tool, installs it through npm, and renders, serves or  *)
(* opens an Allure report by running external processes.                   *)
(*                                                                         *)
(* The program is single-threaded.  One call (main with an argument        *)
(* vector, or one of the five functions called directly) runs at a time;   *)
(* the filesystem it reads belongs to the environment and may change       *)
(* between any two steps of a call.                                        *)
(***************************************************************************)
EXTENDS Integers, Sequences, FiniteSets, TLC

VARIABLES
    fs,           \* what the program can observe of the filesystem
    env,          \* how the processes this call can start behave once started
    call,         \* the call in progress (or the last one): entry point and argv
    command,      \* main's lower-cased command token
    pc,           \* position inside the call
    probe,        \* return value of check_allure_installed in this call
    ret,          \* return value of the operation function in this call
    raised,       \* exception that escaped to the caller of this call
    invocations,  \* subprocess.run calls of this call, in order, with outcome
    out,          \* lines printed by this call, in order
    checked,      \* what the directory precondition check of this call found on disk
    calm,         \* no environment step since this call started
    prev          \* <<record>> of the preceding identical undisturbed call, or <<>>

vars == <<fs, env, call, command, pc, probe, ret, raised, invocations, out,
          checked, calm, prev>>

(***************************************************************************)
(* Strings the program compares or transforms are sequences of characters. *)
(***************************************************************************)
INSTALL  == <<"i","n","s","t","a","l","l">>
SERVE    == <<"s","e","r","v","e">>
GENERATE == <<"g","e","n","e","r","a","t","e">>
OPEN     == <<"o","p","e","n">>

SCRIPT   == <<"generate_allure_report.py">>

UpperChars == <<"A","B","C","D","E","F","G","H","I","J","K","L","M",
                "N","O","P","Q","R","S","T","U","V","W","X","Y","Z">>
LowerChars == <<"a","b","c","d","e","f","g","h","i","j","k","l","m",
                "n","o","p","q","r","s","t","u","v","w","x","y","z">>

LowerChar(c) ==
    IF \E i \in 1..Len(UpperChars) : UpperChars[i] = c
    THEN LowerChars[CHOOSE i \in 1..Len(UpperChars) : UpperChars[i] = c]
    ELSE c

\* Mutant: the token is compared as typed.
LowerIdentity(s) == s

\* str.lower()
RECURSIVE Lower(_)
Lower(s) == IF s = <<>> THEN <<>> ELSE <<LowerChar(Head(s))>> \o Lower(Tail(s))

\* The argument vectors tried: sys.argv, script name first.
Argvs ==
    { <<SCRIPT>>,
      <<SCRIPT, INSTALL>>, <<SCRIPT, SERVE>>, <<SCRIPT, GENERATE>>, <<SCRIPT, OPEN>>,
      <<SCRIPT, <<"I","N","S","T","A","L","L">>>>,
      <<SCRIPT, <<"S","e","r","v","e">>>>,
      <<SCRIPT, <<"g","e","n","E","R","A","T","E">>>>,
      <<SCRIPT, <<"O","p","e","N">>>>,
      <<SCRIPT, <<"f","o","o">>>> }

\* The functions of the module that can be called directly.
Functions == {"check_allure_installed", "install_allure", "generate_report",
              "serve_report", "open_report"}

(***************************************************************************)
(* Filesystem and external commands.                                       *)
(***************************************************************************)
ResultsStates == {"absent", "empty", "other", "json"}

FsStates == [tool : BOOLEAN, npm : BOOLEAN, results : ResultsStates, report : BOOLEAN]

\* A call starts at most the version probe and one command of its operation.
\* version: how "allure --version" exits; op: how the operation's command
\* ends.  Only the serve call is waited on under a Ctrl+C handler.  A process
\* the call cannot start is given the exit status zero.
Behaviours(probes, op) ==
    [version : IF probes THEN {"zero", "nonzero"} ELSE {"zero"},
     op      : CASE op \in {"install", "generate", "open"} -> {"zero", "nonzero"}
                 [] op = "serve" -> {"zero", "nonzero", "interrupt"}
                 [] OTHER -> {"zero"}]

VersionArgs  == <<"allure", "--version">>
NpmArgs      == <<"npm", "install", "-g", "allure-commandline">>
\* Mutant: the report is rendered without discarding the previous one.
GenerateArgsNoClean == <<"allure", "generate", "allure-results", "-o", "allure-report">>

GenerateArgs == <<"allure", "generate", "allure-results", "--clean", "-o", "allure-report">>
ServeArgs    == <<"allure", "serve", "allure-results">>
OpenArgs     == <<"allure", "open", "allure-report">>

Has(args, a) == \E i \in 1..Len(args) : args[i] = a

\* Mutant: only the directory is looked for, not the artifacts in it.
NoResultsDirOnly(results) == results = "absent"

\* not results_dir.exists() or not list(results_dir.glob("*.json"))
NoResults(results) == results = "absent" \/ results # "json"

\* Mutant: the report directory is not looked for.
NoReportNever(f) == FALSE

\* not report_dir.exists()
NoReport(f) == ~f.report


(***************************************************************************)
(* subprocess.run(args, check=True): the outcome of starting args in the   *)
(* filesystem f under behaviour e, and what the finished process leaves    *)
(* behind.  "missing" raises FileNotFoundError, "nonzero" raises           *)
(* CalledProcessError, "interrupt" raises KeyboardInterrupt in the caller. *)
(***************************************************************************)
Executable(args, f) == IF args[1] = "npm" THEN f.npm ELSE f.tool

Outcome(args, f, e) ==
    IF ~Executable(args, f) THEN "missing"
    ELSE IF args[1] = "npm" THEN e.op
    ELSE IF args[2] = "--version" THEN e.version
    ELSE IF args[2] = "generate" /\ f.report /\ ~Has(args, "--clean") THEN "nonzero"
    ELSE e.op

Effect(args, outcome, f) ==
    IF outcome # "zero" THEN f
    ELSE IF args[1] = "npm" THEN [f EXCEPT !.tool = TRUE]
    ELSE IF args[2] = "generate" THEN [f EXCEPT !.report = TRUE]
    ELSE f

Invocation(args, outcome) == [args |-> args, outcome |-> outcome]

(***************************************************************************)
(* Printed lines.                                                          *)
(***************************************************************************)
Msg(text) == [text |-> text, arg |-> <<>>]

MsgUsage          == [text |-> "Usage:", arg |-> <<SERVE, GENERATE, OPEN, INSTALL>>]
MsgUnknown(c)     == [text |-> "Unknown command:", arg |-> <<c>>]
MsgAvailable      == [text |-> "Available commands:", arg |-> <<SERVE, GENERATE, OPEN, INSTALL>>]
MsgAlready        == Msg("Allure is already installed")
MsgNotInstalled   == Msg("Allure not installed. Run 'python generate_allure_report.py install' first")
MsgInstalling     == Msg("Installing Allure command line tool...")
MsgInstalled      == Msg("Allure installed successfully via npm")
MsgInstallFailed  == Msg("Failed to install Allure via npm")
MsgManual         == Msg("Please install Allure manually:")
MsgNoResults      == Msg("No Allure results found. Run tests first:")
MsgGenerating     == Msg("Generating Allure report...")
MsgGenerated      == Msg("Allure report generated in 'allure-report/' directory")
MsgGenerateFailed == Msg("Failed to generate report:")
MsgServing        == Msg("Starting Allure report server...")
MsgStopped        == Msg("Server stopped")
MsgServeFailed    == Msg("Failed to serve report:")
MsgNoReport       == Msg("No report found. Generate report first:")
MsgOpening        == Msg("Opening Allure report in browser...")
MsgOpenFailed     == Msg("Failed to open report:")

Printed(m) == \E i \in 1..Len(out) : out[i] = m

(***************************************************************************)
(* Initial state: nothing has been called; the environment is arbitrary.   *)
(***************************************************************************)
NoCall == [entry |-> "none", argv |-> <<>>]

Init ==
    /\ fs \in FsStates
    /\ env = [version |-> "zero", op |-> "zero"]
    /\ call = NoCall
    /\ command = <<>>
    /\ pc = "idle"
    /\ probe = "unset"
    /\ ret = "unset"
    /\ raised = "none"
    /\ invocations = <<>>
    /\ out = <<>>
    /\ checked = "unset"
    /\ calm = TRUE
    /\ prev = <<>>

\* A new call may start when none is running.  It is remembered against the
\* call before it when that one was the same call, the external commands
\* behave as they did for it, and the environment did not act meanwhile.
Between == pc \in {"idle", "done"}

\* What the caller of the finished call got: the exception that escaped, or
\* the function's return value (main has no return statement with a value).
Result ==
    IF raised # "none" THEN raised
    ELSE IF call.entry = "main" THEN "None"
    ELSE ret

Completed == [call |-> call, fs |-> fs, result |-> Result]

Begin(c, e) ==
    /\ Between
    /\ call' = c
    /\ env' = e
    /\ probe' = "unset"
    /\ ret' = "unset"
    /\ raised' = "none"
    /\ invocations' = <<>>
    /\ checked' = "unset"
    /\ calm' = TRUE
    /\ prev' = IF pc = "done" /\ calm /\ call = c /\ env = e THEN <<Completed>> ELSE <<>>

EntryPc(fn) ==
    CASE fn = "check_allure_installed" -> "probe"
      [] fn = "install_allure"         -> "install"
      [] fn = "generate_report"        -> "generate"
      [] fn = "serve_report"           -> "serve"
      [] fn = "open_report"            -> "open"

\* The operation main dispatches to once the probe allows it.
Dispatch(c) ==
    CASE c = INSTALL  -> "install"
      [] c = SERVE    -> "serve"
      [] c = GENERATE -> "generate"
      [] c = OPEN     -> "open"
      [] OTHER        -> "unknown"

\* main(), up to its first external call.
MainStart ==
    \E argv \in Argvs :
        LET c  == IF Len(argv) < 2 THEN <<>> ELSE Lower(argv[2])
            op == IF Len(argv) < 2 THEN "usage" ELSE Dispatch(c)
        IN \E e \in Behaviours(op \notin {"usage", "unknown"}, op) :
              /\ Begin([entry |-> "main", argv |-> argv], e)
              /\ command' = c
              /\ IF Len(argv) < 2
                 THEN /\ out' = <<MsgUsage>>
                      /\ pc' = "done"
                 ELSE IF op = "unknown"
                      THEN /\ out' = <<MsgUnknown(c), MsgAvailable>>
                           /\ pc' = "done"
                      ELSE /\ out' = <<>>
                           /\ pc' = "probe"
              /\ fs' = fs

\* One of the functions called directly by an importing program.
DirectCall ==
    \E fn \in Functions :
        \E e \in Behaviours(fn = "check_allure_installed", EntryPc(fn)) :
            /\ Begin([entry |-> fn, argv |-> <<>>], e)
            /\ command' = <<>>
            /\ out' = <<>>
            /\ pc' = EntryPc(fn)
            /\ fs' = fs

\* Mutant: serve, generate and open go ahead whatever the probe said.
MainAfterProbeIgnored(c, ok) ==
    IF c = INSTALL
    THEN IF ok = "False"
         THEN [pc |-> "install", out |-> <<>>]
         ELSE [pc |-> "done", out |-> <<MsgAlready>>]
    ELSE [pc |-> Dispatch(c), out |-> <<>>]

\* Mutant: install runs the package manager whatever the probe said.
MainAfterProbeReinstalls(c, ok) ==
    IF c = INSTALL
    THEN [pc |-> "install", out |-> <<>>]
    ELSE IF ok = "False"
         THEN [pc |-> "done", out |-> <<MsgNotInstalled>>]
         ELSE [pc |-> Dispatch(c), out |-> <<>>]

\* main(), the branch taken on the probe's result for command c: where the
\* call goes next and what is printed.
MainAfterProbe(c, ok) ==
    IF c = INSTALL
    THEN IF ok = "False"
         THEN [pc |-> "install", out |-> <<>>]
         ELSE [pc |-> "done", out |-> <<MsgAlready>>]
    ELSE IF ok = "False"
         THEN [pc |-> "done", out |-> <<MsgNotInstalled>>]
         ELSE [pc |-> Dispatch(c), out |-> <<>>]

\* check_allure_installed(), and in main the branch taken on its result.
CheckAllureInstalled ==
    /\ pc = "probe"
    /\ LET o  == Outcome(VersionArgs, fs, env)
           ok == IF o = "zero" THEN "True" ELSE "False"
       IN /\ invocations' = Append(invocations, Invocation(VersionArgs, o))
          /\ probe' = ok
          /\ fs' = Effect(VersionArgs, o, fs)
          /\ IF call.entry # "main"
             THEN /\ ret' = ok
                  /\ out' = out
                  /\ pc' = "done"
             ELSE /\ ret' = ret
                  /\ out' = out \o MainAfterProbe(command, ok).out
                  /\ pc' = MainAfterProbe(command, ok).pc
    /\ UNCHANGED <<env, call, command, raised, checked, calm, prev>>

\* Mutant: only CalledProcessError is caught around the npm call.
InstallAllureMissingEscapes ==
    /\ pc = "install"
    /\ LET o == Outcome(NpmArgs, fs, env)
       IN /\ invocations' = Append(invocations, Invocation(NpmArgs, o))
          /\ fs' = Effect(NpmArgs, o, fs)
          /\ CASE o = "zero" ->
                    /\ out' = out \o <<MsgInstalling, MsgInstalled>>
                    /\ ret' = "True"
                    /\ raised' = raised
               [] o = "nonzero" ->
                    /\ out' = out \o <<MsgInstalling, MsgInstallFailed, MsgManual>>
                    /\ ret' = "False"
                    /\ raised' = raised
               [] o = "missing" ->
                    /\ out' = Append(out, MsgInstalling)
                    /\ ret' = ret
                    /\ raised' = "FileNotFoundError"
    /\ pc' = "done"
    /\ UNCHANGED <<env, call, command, probe, checked, calm, prev>>

\* install_allure()
InstallAllure ==
    /\ pc = "install"
    /\ LET o == Outcome(NpmArgs, fs, env)
       IN /\ invocations' = Append(invocations, Invocation(NpmArgs, o))
          /\ fs' = Effect(NpmArgs, o, fs)
          /\ IF o = "zero"
             THEN /\ out' = out \o <<MsgInstalling, MsgInstalled>>
                  /\ ret' = "True"
             ELSE /\ out' = out \o <<MsgInstalling, MsgInstallFailed, MsgManual>>
                  /\ ret' = "False"
    /\ pc' = "done"
    /\ UNCHANGED <<env, call, command, probe, raised, checked, calm, prev>>


\* generate_report() and serve_report(), up to the external call: the
\* precondition on the results directory, what it prints and returns.
ResultsPrecondition(results, announce, run) ==
    IF NoResults(results)
    THEN [out |-> <<MsgNoResults>>, ret |-> "False", pc |-> "done"]
    ELSE [out |-> <<announce>>, ret |-> "unset", pc |-> run]

GenerateReportCheck ==
    /\ pc = "generate"
    /\ LET r == ResultsPrecondition(fs.results, MsgGenerating, "generate_run")
       IN /\ checked' = fs.results
          /\ out' = out \o r.out
          /\ ret' = r.ret
          /\ pc' = r.pc
    /\ UNCHANGED <<fs, env, call, command, probe, raised, invocations, calm, prev>>

ServeReportCheck ==
    /\ pc = "serve"
    /\ LET r == ResultsPrecondition(fs.results, MsgServing, "serve_run")
       IN /\ checked' = fs.results
          /\ out' = out \o r.out
          /\ ret' = r.ret
          /\ pc' = r.pc
    /\ UNCHANGED <<fs, env, call, command, probe, raised, invocations, calm, prev>>

\* Mutant: the exit status of the render is not looked at.
GenerateReportIgnoresExit ==
    /\ pc = "generate_run"
    /\ LET o == Outcome(GenerateArgs, fs, env)
       IN /\ invocations' = Append(invocations, Invocation(GenerateArgs, o))
          /\ fs' = Effect(GenerateArgs, o, fs)
          /\ IF o = "missing"
             THEN /\ out' = out
                  /\ ret' = ret
                  /\ raised' = "FileNotFoundError"
             ELSE /\ out' = Append(out, MsgGenerated)
                  /\ ret' = "True"
                  /\ raised' = raised
    /\ pc' = "done"
    /\ UNCHANGED <<env, call, command, probe, checked, calm, prev>>

\* generate_report(), the external call and its handlers.
GenerateReport ==
    /\ pc = "generate_run"
    /\ LET o == Outcome(GenerateArgs, fs, env)
       IN /\ invocations' = Append(invocations, Invocation(GenerateArgs, o))
          /\ fs' = Effect(GenerateArgs, o, fs)
          /\ CASE o = "zero" ->
                    /\ out' = Append(out, MsgGenerated)
                    /\ ret' = "True"
                    /\ raised' = raised
               [] o = "nonzero" ->
                    /\ out' = Append(out, MsgGenerateFailed)
                    /\ ret' = "False"
                    /\ raised' = raised
               [] o = "missing" ->
                    /\ out' = out
                    /\ ret' = ret
                    /\ raised' = "FileNotFoundError"
    /\ pc' = "done"
    /\ UNCHANGED <<env, call, command, probe, checked, calm, prev>>

\* serve_report(), starting the server: the call blocks while it runs.
ServeReportStart ==
    /\ pc = "serve_run"
    /\ IF Executable(ServeArgs, fs)
       THEN /\ invocations' = Append(invocations, Invocation(ServeArgs, "running"))
            /\ raised' = raised
            /\ pc' = "serving"
       ELSE /\ invocations' = Append(invocations, Invocation(ServeArgs, "missing"))
            /\ raised' = "FileNotFoundError"
            /\ pc' = "done"
    /\ UNCHANGED <<fs, env, call, command, probe, ret, out, checked, calm, prev>>

\* Mutant: Ctrl+C is reported like a failed server.
ServeReportEndInterruptFails ==
    /\ pc = "serving"
    /\ LET o == env.op
       IN /\ invocations' = [invocations EXCEPT ![Len(invocations)].outcome = o]
          /\ IF o = "zero"
             THEN out' = out /\ ret' = "True"
             ELSE out' = Append(out, MsgServeFailed) /\ ret' = "False"
    /\ pc' = "done"
    /\ UNCHANGED <<fs, env, call, command, probe, raised, checked, calm, prev>>

\* serve_report(), the server ending (by itself or by Ctrl+C) and the handlers.
ServeReportEnd ==
    /\ pc = "serving"
    /\ LET o == env.op
       IN /\ invocations' = [invocations EXCEPT ![Len(invocations)].outcome = o]
          /\ CASE o = "zero" ->
                    /\ out' = out
                    /\ ret' = "True"
               [] o = "interrupt" ->
                    /\ out' = Append(out, MsgStopped)
                    /\ ret' = "True"
               [] o = "nonzero" ->
                    /\ out' = Append(out, MsgServeFailed)
                    /\ ret' = "False"
    /\ pc' = "done"
    /\ UNCHANGED <<fs, env, call, command, probe, raised, checked, calm, prev>>

\* open_report()
OpenReport ==
    /\ pc = "open"
    /\ checked' = IF fs.report THEN "report" ELSE "noreport"
    /\ IF NoReport(fs)
       THEN /\ out' = Append(out, MsgNoReport)
            /\ ret' = "False"
            /\ UNCHANGED <<fs, invocations, raised>>
       ELSE LET o == Outcome(OpenArgs, fs, env)
            IN /\ invocations' = Append(invocations, Invocation(OpenArgs, o))
               /\ fs' = Effect(OpenArgs, o, fs)
               /\ CASE o = "zero" ->
                         /\ out' = Append(out, MsgOpening)
                         /\ ret' = "True"
                         /\ raised' = raised
                    [] o = "nonzero" ->
                         /\ out' = out \o <<MsgOpening, MsgOpenFailed>>
                         /\ ret' = "False"
                         /\ raised' = raised
                    [] o = "missing" ->
                         /\ out' = Append(out, MsgOpening)
                         /\ ret' = ret
                         /\ raised' = "FileNotFoundError"
    /\ pc' = "done"
    /\ UNCHANGED <<env, call, command, probe, calm, prev>>

\* The environment: tests are run, directories are removed, tools are
\* installed or uninstalled by someone else.  One observable fact changes.
Changes(f) ==
    {[f EXCEPT !.tool = ~@], [f EXCEPT !.npm = ~@], [f EXCEPT !.report = ~@]}
        \cup {[f EXCEPT !.results = r] : r \in ResultsStates \ {f.results}}

EnvChange ==
    /\ \E f \in Changes(fs) : fs' = f
    /\ calm' = FALSE
    /\ prev' = <<>>
    /\ UNCHANGED <<env, call, command, pc, probe, ret, raised, invocations, out, checked>>

Next ==
    \/ MainStart
    \/ DirectCall
    \/ CheckAllureInstalled
    \/ InstallAllure
    \/ GenerateReportCheck
    \/ GenerateReport
    \/ ServeReportCheck
    \/ ServeReportStart
    \/ ServeReportEnd
    \/ OpenReport
    \/ EnvChange

Spec == Init /\ [][Next]_vars


(***************************************************************************)
(* Properties.                                                             *)
(***************************************************************************)
Done == pc = "done"

MainCall == call.entry = "main"

\* The operation this call is for: main's dispatch target or the function
\* called directly.
Operation ==
    IF MainCall
    THEN IF Len(call.argv) < 2 THEN "usage" ELSE Dispatch(command)
    ELSE EntryPc(call.entry)

Failed(o) == o \in {"nonzero", "missing"}

\* The invocations of this call whose command line starts with exe, word.
Runs(exe, word) ==
    {i \in 1..Len(invocations) :
        invocations[i].args[1] = exe /\ invocations[i].args[2] = word}

\* The invocations of this call other than the version probe.
BeyondProbe == {i \in 1..Len(invocations) : invocations[i].args # VersionArgs}

FailureMsg(args) ==
    CASE args[1] = "npm"       -> MsgInstallFailed
      [] args[2] = "generate"  -> MsgGenerateFailed
      [] args[2] = "serve"     -> MsgServeFailed
      [] OTHER                 -> MsgOpenFailed

\* C1: whatever an external process does (exit zero, exit non-zero,
\* executable missing), the call ends without an exception reaching the caller;
\* a non-zero exit or a missing executable makes the probe return False and
\* makes any other operation print its failure message and return False.
C1_FailureIsLocal ==
    Done =>
        /\ raised = "none"
        /\ \A i \in 1..Len(invocations) :
              Failed(invocations[i].outcome) =>
                  IF invocations[i].args = VersionArgs
                  THEN probe = "False"
                  ELSE ret = "False" /\ Printed(FailureMsg(invocations[i].args))

\* C2: "allure generate" and "allure serve" are in the invocation log, or
\* running, only if the precondition check found a results directory with a
\* *.json artifact; a check that found none ends the call with False and
\* with no invocation by the operation (under main: the probe alone).
C2_NoResultsNoInvocation ==
    /\ (Runs("allure", "generate") \cup Runs("allure", "serve") # {} \/ pc = "serving")
          => checked = "json"
    /\ (Done /\ Operation \in {"generate", "serve"} /\ checked \in {"absent", "empty", "other"})
          => /\ ret = "False"
             /\ raised = "none"
             /\ BeyondProbe = {}
             /\ (~MainCall => invocations = <<>>)

C2_Witness ==
    /\ Done /\ call.entry = "serve_report" /\ checked = "empty"
    /\ ret = "False" /\ invocations = <<>>

\* C3 as claimed: for install, serve, generate and open alike, main with
\* a failing probe prints the installation hint, yields no success, and
\* runs no process other than the probe.
C3_AllFourStopAtProbe ==
    (Done /\ MainCall /\ probe = "False") =>
        /\ Printed(MsgNotInstalled)
        /\ ret # "True"
        /\ Len(invocations) = 1

\* C3 as amended: for serve, generate and open, main with a failing
\* probe prints the installation hint, never enters the operation and runs
\* no process other than the probe; for install it runs the package manager
\* exactly once after the probe and reports that run's result.
C3_ThreeStopAtProbe ==
    (Done /\ MainCall /\ probe = "False") =>
        IF command = INSTALL
        THEN /\ Len(invocations) = 2
             /\ invocations[2].args[1] = "npm"
             /\ ~Printed(MsgNotInstalled)
             /\ ret = (IF invocations[2].outcome = "zero" THEN "True" ELSE "False")
        ELSE /\ Printed(MsgNotInstalled)
             /\ ret = "unset"
             /\ raised = "none"
             /\ checked = "unset"
             /\ Len(invocations) = 1
             /\ invocations[1].args = VersionArgs

C3_Witness ==
    /\ Done /\ MainCall /\ probe = "False" /\ command = OPEN
    /\ fs.report /\ Printed(MsgNotInstalled) /\ Len(invocations) = 1

\* C4: generate_report with results present invokes the tool exactly
\* once, as allure generate allure-results --clean -o allure-report, and when
\* the tool could be started returns True iff the process exited zero.
C4_GenerateOnceClean ==
    (Done /\ Operation = "generate" /\ checked = "json") =>
        /\ Cardinality(BeyondProbe) = 1
        /\ \A i \in BeyondProbe :
              LET a == invocations[i].args
                  o == invocations[i].outcome
              IN /\ Len(a) = 6
                 /\ a[1] = "allure" /\ a[2] = "generate" /\ a[3] = "allure-results"
                 /\ a[4] = "--clean"
                 /\ a[5] = "-o" /\ a[6] = "allure-report"
                 /\ o \in {"zero", "nonzero", "missing"}
                 /\ (o # "missing" => (ret = "True" <=> o = "zero"))
                 /\ (o # "missing" => ret \in {"True", "False"})

C4_Witness ==
    /\ Done /\ call.entry = "generate_report" /\ checked = "json"
    /\ Len(invocations) = 1 /\ invocations[1].outcome = "nonzero" /\ ret = "False"


LastInvocation == invocations[Len(invocations)]

\* A step of the program, as opposed to one of the environment.
ProgramStep == ~EnvChange

\* C5: while the serve child runs the call sits in serve_report and
\* nothing else of the program moves; the step that ends the wait returns from
\* serve_report without an exception: True after Ctrl+C (with "Server
\* stopped") or a zero exit, False after a non-zero exit.
C5_ServeBlocksThenReturns ==
    /\ [](pc = "serving" =>
            /\ Operation = "serve"
            /\ checked = "json"
            /\ ret = "unset" /\ raised = "none"
            /\ Cardinality(Runs("allure", "serve")) = 1
            /\ LastInvocation = [args |-> <<"allure", "serve", "allure-results">>,
                                 outcome |-> "running"])
    /\ [][pc = "serving" =>
            \/ /\ pc' = "serving"
               /\ UNCHANGED <<call, command, probe, ret, raised, invocations, out>>
            \/ /\ pc' = "done"
               /\ UNCHANGED <<call, command, probe, raised, fs>>
               /\ Len(invocations') = Len(invocations)
               /\ LET o == LastInvocation'.outcome
                  IN /\ o \in {"zero", "nonzero", "interrupt"}
                     /\ ret' = (IF o = "nonzero" THEN "False" ELSE "True")
                     /\ (o = "interrupt" => out' = Append(out, MsgStopped))
                     /\ (o = "nonzero" => out' = Append(out, MsgServeFailed))]_vars

C5_Witness ==
    /\ Done /\ Operation = "serve" /\ Len(invocations) > 0
    /\ LastInvocation.args[2] = "serve" /\ LastInvocation.outcome = "interrupt"
    /\ ret = "True"

\* C6: open_report that finds no report directory returns False with
\* the generate-first hint and runs nothing; one that finds the directory runs
\* "allure open allure-report" exactly once and returns True iff it exits zero.
C6_OpenNeedsReport ==
    /\ (Done /\ Operation = "open" /\ checked = "noreport") =>
          /\ ret = "False"
          /\ raised = "none"
          /\ Printed(MsgNoReport)
          /\ BeyondProbe = {}
    /\ (Done /\ Operation = "open" /\ checked = "report") =>
          /\ Cardinality(BeyondProbe) = 1
          /\ \A i \in BeyondProbe :
                /\ invocations[i].args = <<"allure", "open", "allure-report">>
                /\ (ret = "True" <=> invocations[i].outcome = "zero")

C6_Witness ==
    /\ Done /\ call.entry = "open_report" /\ checked = "noreport"
    /\ fs.tool /\ ret = "False" /\ invocations = <<>>

\* C7: install_allure runs npm install -g allure-commandline exactly
\* once, returns True only if it exited zero, and when npm is missing or exits
\* non-zero prints the manual-installation guidance and returns False; no
\* exception reaches the caller.
C7_InstallOnceNoRaise ==
    (Done /\ Operation = "install" /\ (MainCall => probe = "False")) =>
        /\ raised = "none"
        /\ ret \in {"True", "False"}
        /\ Cardinality(BeyondProbe) = 1
        /\ \A i \in BeyondProbe :
              /\ invocations[i].args = <<"npm", "install", "-g", "allure-commandline">>
              /\ (ret = "True" => invocations[i].outcome = "zero")
              /\ (Failed(invocations[i].outcome) => ret = "False" /\ Printed(MsgManual))

C7_Witness ==
    /\ Done /\ call.entry = "install_allure" /\ Len(invocations) = 1
    /\ invocations[1].outcome = "missing" /\ ret = "False" /\ Printed(MsgManual)

ValidCommands == {INSTALL, SERVE, GENERATE, OPEN}

SameLetter(x, y) ==
    \/ x = y
    \/ \E k \in 1..Len(UpperChars) : {x, y} = {UpperChars[k], LowerChars[k]}

SameIgnoringCase(a, b) ==
    /\ Len(a) = Len(b)
    /\ \A i \in 1..Len(a) : SameLetter(a[i], b[i])

\* C8: main without an argument prints the usage text, and with a
\* token that is no command whatever its letter case prints the unknown-command
\* message listing exactly install, serve, generate, open; either way it runs
\* no process, raises nothing and leaves the filesystem alone.  A token that
\* is a command up to letter case is routed to that command.
C8_NoCommandNoAction ==
    /\ [](Done /\ MainCall /\ Len(call.argv) < 2 =>
            /\ out = <<MsgUsage>>
            /\ invocations = <<>> /\ raised = "none" /\ ret = "unset")
    /\ [](Done /\ MainCall /\ Len(call.argv) >= 2
               /\ ~(\E c \in ValidCommands : SameIgnoringCase(call.argv[2], c)) =>
            /\ invocations = <<>> /\ raised = "none" /\ ret = "unset"
            /\ Len(out) = 2
            /\ out[1].text = "Unknown command:"
            /\ out[2].text = "Available commands:"
            /\ Len(out[2].arg) = 4
            /\ {out[2].arg[i] : i \in 1..4} = ValidCommands)
    /\ [](Done /\ MainCall /\ Len(call.argv) >= 2 =>
            \A c \in ValidCommands :
                SameIgnoringCase(call.argv[2], c) =>
                    /\ command = c
                    /\ Len(invocations) >= 1
                    /\ invocations[1].args = VersionArgs)
    /\ [][(ProgramStep /\ MainCall' /\ pc' = "done" /\ invocations' = <<>>)
             => fs' = fs]_vars

C8_Witness ==
    /\ Done /\ MainCall /\ Len(call.argv) = 2
    /\ call.argv[2] = <<"f","o","o">>
    /\ fs.tool /\ fs.results = "json"
    /\ invocations = <<>> /\ Len(out) = 2

\* C9: a call repeated at once in an environment that did not act since
\* the first one started ends with the filesystem the first one left and with
\* the first one's result; and no step of the program changes the results
\* directory.
C9_Idempotent ==
    /\ [](Done /\ prev # <<>> =>
            /\ prev[1].call = call
            /\ fs = prev[1].fs
            /\ Result = prev[1].result)
    /\ [][ProgramStep => fs'.results = fs.results]_vars

C9_Witness ==
    /\ Done /\ prev # <<>> /\ call.entry = "generate_report"
    /\ Result = "True" /\ prev[1].result = "True" /\ fs.report

CommandWord(c) ==
    CASE c = INSTALL  -> "install"
      [] c = SERVE    -> "serve"
      [] c = GENERATE -> "generate"
      [] c = OPEN     -> "open"

\* C10: in a run of main with a valid command the version probe comes
\* first and at most one more process follows; that one is npm, only after a
\* failed probe, for install, and the tool's own subcommand, only after a
\* successful probe, for serve, generate and open, which after a failed probe
\* print the installation hint and no directory message.
C10_ProbeGatesTheRest ==
    (MainCall /\ pc # "idle" /\ Operation \in {"install", "serve", "generate", "open"}) =>
        /\ Len(invocations) <= 2
        /\ (pc # "probe" => Len(invocations) >= 1)
        /\ (Len(invocations) >= 1 => invocations[1].args = <<"allure", "--version">>)
        /\ (Len(invocations) = 2 =>
              IF command = INSTALL
              THEN probe = "False" /\ invocations[2].args[1] = "npm"
              ELSE /\ probe = "True"
                   /\ invocations[2].args[1] = "allure"
                   /\ invocations[2].args[2] = CommandWord(command))
        /\ (command = INSTALL /\ probe = "True" =>
              Done /\ Len(invocations) = 1 /\ out = <<MsgAlready>>)
        /\ (command # INSTALL /\ probe = "False" =>
              Done /\ Len(invocations) = 1 /\ out = <<MsgNotInstalled>>)

C10_Witness ==
    /\ Done /\ MainCall /\ command = GENERATE /\ probe = "False"
    /\ fs.results = "absent" /\ out = <<MsgNotInstalled>>

====
